---------------------------- MODULE Spec2Model ----------------------------
(***************************************************************************)
(* The flashcard generator page, in its two variants:                      *)
(*   "index"    src/index.tsx          (inline key section)                *)
(*   "part_000" src/unnamed/part_000   (key modal, generate after save)    *)
(* Text is a sequence of characters (one-character strings); fixed UI      *)
(* messages and upstream error messages are sequences of fragments, so     *)
(* that trim, split, join and includes are computed, not assumed.          *)
(***************************************************************************)
EXTENDS Naturals, Sequences, FiniteSets

VARIABLES
  variant,              \* which source file the page runs
  markup,               \* index.html's own 'hidden' classes (not in src/)
  ai,                   \* let ai: the key the client was built from, Null for null
  sessionStorage,       \* sessionStorage[API_KEY_SESSION_STORAGE_KEY], Null when absent
  topicInput,           \* topicInput.value
  disabled,             \* generateButton.disabled
  errorMessage,         \* errorMessage.textContent
  flashcardsContainer,  \* the cards on display, in order
  apiKeySectionHidden,  \* index: apiKeySection has class 'hidden'
  appContentHidden,     \* index: appContent has class 'hidden'
  modalOpen,            \* part_000: apiKeyModal is open (page behind it inert)
  pending,              \* generateContent calls awaiting their reply
  responseText,         \* the responseText the last resumed handler read
  lastEvent,            \* history: the event whose handler ran last, with its inputs
  rejected              \* history: the secret the upstream last refused as invalid,
                        \* Null once a secret has been activated after that

vars == <<variant, markup, ai, sessionStorage, topicInput, disabled, errorMessage,
          flashcardsContainer, apiKeySectionHidden, appContentHidden, modalOpen,
          pending, responseText, lastEvent, rejected>>

---------------------------------------------------------------------------
(* Bounds *)

\* longest response text of ParseSpec
MaxTextLen == 7

\* most generateContent calls in flight: a handler that would issue one
\* more does not run
MaxPending == 2

---------------------------------------------------------------------------
(* Text *)

Null == <<>>

NL == "\n"

Chars == {"a", ":", " ", NL}

\* String.prototype.trim strips white space and line terminators
IsWhiteSpace(c) == c \in {" ", NL}

RECURSIVE trimStart(_)
trimStart(s) ==
  IF s = <<>> THEN <<>>
  ELSE IF IsWhiteSpace(Head(s)) THEN trimStart(Tail(s)) ELSE s

RECURSIVE trimEnd(_)
trimEnd(s) ==
  IF s = <<>> THEN <<>>
  ELSE IF IsWhiteSpace(s[Len(s)]) THEN trimEnd(SubSeq(s, 1, Len(s) - 1)) ELSE s

trim(s) == trimEnd(trimStart(s))

\* String.prototype.split(sep): the pieces between the separators; always
\* at least one piece, the empty text gives one empty piece
RECURSIVE split(_, _)
split(s, sep) ==
  IF s = <<>> THEN << <<>> >>
  ELSE LET rest == split(Tail(s), sep)
       IN  IF Head(s) = sep
           THEN << <<>> >> \o rest
           ELSE << <<Head(s)>> \o Head(rest) >> \o Tail(rest)

\* Array.prototype.join(sep)
RECURSIVE join(_, _)
join(parts, sep) ==
  IF parts = <<>> THEN <<>>
  ELSE IF Len(parts) = 1 THEN Head(parts)
  ELSE Head(parts) \o <<sep>> \o join(Tail(parts), sep)

\* Array.prototype.slice(1)
slice1(parts) == IF parts = <<>> THEN <<>> ELSE Tail(parts)

\* String.prototype.includes, on a message made of fragments
includes(message, fragment) == \E i \in DOMAIN message : message[i] = fragment

---------------------------------------------------------------------------
(* The response parser: the same text in both files                        *)
(* (src/index.tsx:179-194, src/unnamed/part_000:148-161)                   *)

\* mutant: the definition is not trimmed
lineMapper_UntrimmedDefinition(line) ==
  LET parts == split(line, ":")
  IN  IF Len(parts) >= 2 /\ trim(parts[1]) # <<>>
      THEN LET term       == trim(parts[1])
               definition == join(slice1(parts), ":")
           IN  IF definition # <<>>
               THEN << [term |-> term, definition |-> definition] >>
               ELSE <<>>
      ELSE <<>>

\* .map((line) => ...): the card of a line, or null. The result is given as
\* a list of one card or of none, so that .filter(card !== null) is the
\* concatenation of the results.
\* mutant: a card is returned although its definition is empty
lineMapper_NoDefinitionCheck(line) ==
  LET parts == split(line, ":")
  IN  IF Len(parts) >= 2 /\ trim(parts[1]) # <<>>
      THEN << [term |-> trim(parts[1]),
               definition |-> trim(join(slice1(parts), ":"))] >>
      ELSE <<>>

\* mutant: the definition is the second part alone, parts[1]
lineMapper_SecondPartOnly(line) ==
  LET parts == split(line, ":")
  IN  IF Len(parts) >= 2 /\ trim(parts[1]) # <<>>
      THEN LET term       == trim(parts[1])
               definition == trim(parts[2])
           IN  IF definition # <<>>
               THEN << [term |-> term, definition |-> definition] >>
               ELSE <<>>
      ELSE <<>>

lineMapper(line) ==
  LET parts == split(line, ":")
  IN  IF Len(parts) >= 2 /\ trim(parts[1]) # <<>>
      THEN LET term       == trim(parts[1])
               definition == trim(join(slice1(parts), ":"))
           IN  IF definition # <<>>
               THEN << [term |-> term, definition |-> definition] >>
               ELSE <<>>
      ELSE <<>>

\* mutant: a card equal to a later one is left out
RECURSIVE mapFilter_Deduplicated(_)
mapFilter_Deduplicated(lines) ==
  IF lines = <<>> THEN <<>>
  ELSE LET rest == mapFilter_Deduplicated(Tail(lines))
           card == lineMapper(Head(lines))
       IN  IF card # <<>> /\ \E i \in DOMAIN rest : rest[i] = card[1]
           THEN rest ELSE card \o rest

RECURSIVE mapFilter(_)
mapFilter(lines) ==
  IF lines = <<>> THEN <<>>
  ELSE lineMapper(Head(lines)) \o mapFilter(Tail(lines))

\* responseText.split('\n').map(...).filter(...)
parseFlashcards(text) == mapFilter(split(text, NL))

---------------------------------------------------------------------------
(* Fixed texts *)

\* the six example cards; each definition is cut after its first words
DEFAULT_FLASHCARDS ==
  << [term |-> <<"Mercury">>, definition |-> <<"The smallest planet...">>],
     [term |-> <<"Venus">>,   definition |-> <<"The second planet...">>],
     [term |-> <<"Earth">>,   definition |-> <<"Our home planet...">>],
     [term |-> <<"Mars">>,    definition |-> <<"The \"Red Planet,\"...">>],
     [term |-> <<"Jupiter">>, definition |-> <<"The largest planet...">>],
     [term |-> <<"Saturn">>,  definition |-> <<"Known for its...">>] >>

MsgInitFailed == <<"Failed to initialize with the provided API key. Please check the key and try again.">>

MsgEnterKey == <<"Please enter a valid API key.">>

MsgNotInitialized == <<"API client is not initialized. Please set your API key.">>

MsgEmptyTopic == <<"Please enter a topic or some terms and definitions.">>

MsgGenerating == <<"Generating flashcards...">>

MsgNoValidIndex == <<"No valid flashcards could be generated from the response. Please check the format.">>

MsgEmptyResponseIndex == <<"Failed to generate flashcards or received an empty response. Please try again.">>

MsgNoValidPart == <<"Could not parse any valid flashcards from the response. The topic might be too ambiguous. Please try again with a more specific topic.">>

MsgEmptyResponsePart == <<"Received an empty response from the API.">>

MsgUnknown == <<"An unknown error occurred">>

InvalidKeyMarker == "API key not valid"

MsgInvalidKeyIndex == <<"Your API key is not valid. Please click \"Change Key\" to enter a new one.">>

MsgInvalidKeyPart == <<"Your API key is not valid. Please click \"Change API Key\" to enter a new one.">>

MsgErrorPrefix == "An error occurred: "

---------------------------------------------------------------------------
(* Inputs *)

\* what the user may have typed into apiKeyInput
KeyInputs == { <<>>, <<" ">>, <<"k">>, <<" ", "j", " ">> }

\* what the user may have typed into topicInput
TopicInputs == { <<>>, <<" ", NL>>, <<" ", "a">> }

\* the text of a reply of the upstream service: <<>> when the reply has no
\* text (undefined), <<t>> when its text is t
Replies ==
  { <<>>,
    << <<>> >>,
    << <<NL, NL>> >>,
    << <<"a", ":", "a">> >>,
    << <<"a", ":", " ", "a", ":", "a", NL, "a", "a", NL, "a", ":", "a">> >> }

\* the message of the error an upstream call fails with
ErrorMessages ==
  { <<>>,
    <<"Failed to fetch">>,
    <<"[400] ", InvalidKeyMarker, ". Please pass a valid API key.">> }

\* every text of at most MaxTextLen characters
Texts == UNION { [1..n -> Chars] : n \in 0..MaxTextLen }

---------------------------------------------------------------------------
(* The page state as one value, so that a handler is the composition of    *)
(* the functions it calls.                                                 *)

Page ==
  [ ai |-> ai, sessionStorage |-> sessionStorage, topicInput |-> topicInput,
    disabled |-> disabled, errorMessage |-> errorMessage,
    flashcardsContainer |-> flashcardsContainer,
    apiKeySectionHidden |-> apiKeySectionHidden,
    appContentHidden |-> appContentHidden, modalOpen |-> modalOpen,
    pending |-> pending, responseText |-> responseText ]

Becomes(p) ==
  /\ ai' = p.ai
  /\ sessionStorage' = p.sessionStorage
  /\ topicInput' = p.topicInput
  /\ disabled' = p.disabled
  /\ errorMessage' = p.errorMessage
  /\ flashcardsContainer' = p.flashcardsContainer
  /\ apiKeySectionHidden' = p.apiKeySectionHidden
  /\ appContentHidden' = p.appContentHidden
  /\ modalOpen' = p.modalOpen
  /\ pending' = p.pending
  /\ responseText' = p.responseText

Event(name, arg, ok) == [name |-> name, arg |-> arg, ok |-> ok]

\* a document just parsed: the script's top-level bindings, the elements as
\* the markup gives them; the session store outlives the document, the
\* calls in flight do not
FreshPage(stored, hiddenInMarkup) ==
  [ ai |-> Null, sessionStorage |-> stored, topicInput |-> <<>>,
    disabled |-> FALSE, errorMessage |-> <<>>, flashcardsContainer |-> <<>>,
    apiKeySectionHidden |-> hiddenInMarkup.apiKeySection,
    appContentHidden |-> hiddenInMarkup.appContent, modalOpen |-> FALSE,
    pending |-> <<>>, responseText |-> <<>> ]

\* both files: renderFlashcards replaces what is on display
renderFlashcards(p, cards) == [p EXCEPT !.flashcardsContainer = cards]

\* the reply's text, '' when the reply has none: result?.text ?? ''
textOf(reply) == IF reply = <<>> THEN <<>> ELSE reply[1]

\* the call in flight at position i has been answered
Answered(p, i) ==
  [p EXCEPT !.pending = SubSeq(p.pending, 1, i - 1) \o SubSeq(p.pending, i + 1, Len(p.pending))]

\* ai.models.generateContent(...) is called and awaited
generateContent(p, topic) ==
  [p EXCEPT !.pending = Append(p.pending, [key |-> p.ai, topic |-> topic])]

---------------------------------------------------------------------------
(* src/index.tsx *)

\* new GoogleGenAI is library code: it returns (constructed) or throws
initializeApp(p, apiKey, constructed) ==
  IF constructed
  THEN [p EXCEPT !.ai = apiKey,
                 !.apiKeySectionHidden = TRUE,
                 !.appContentHidden = FALSE,
                 !.errorMessage = <<>>,
                 !.flashcardsContainer = <<>>]
  ELSE [p EXCEPT !.errorMessage = MsgInitFailed,
                 !.sessionStorage = Null]

IndexLoaded(p, constructed) ==
  IF p.sessionStorage # Null
  THEN initializeApp(p, p.sessionStorage, constructed)
  ELSE renderFlashcards([p EXCEPT !.apiKeySectionHidden = FALSE,
                                  !.appContentHidden = TRUE],
                        DEFAULT_FLASHCARDS)

IndexSaveClicked(p, typed, constructed) ==
  LET apiKey == trim(typed)
  IN  IF apiKey # <<>>
      THEN initializeApp([p EXCEPT !.sessionStorage = apiKey], apiKey, constructed)
      ELSE [p EXCEPT !.errorMessage = MsgEnterKey]

IndexChangeClicked(p) ==
  renderFlashcards([p EXCEPT !.sessionStorage = Null,
                             !.ai = Null,
                             !.apiKeySectionHidden = FALSE,
                             !.appContentHidden = TRUE,
                             !.errorMessage = <<>>,
                             !.topicInput = <<>>],
                   DEFAULT_FLASHCARDS)

\* mutant: the topic is tested before the client
IndexGenerateClicked_TopicFirst(p) ==
  LET topic == trim(p.topicInput)
  IN  IF topic = <<>>
      THEN [p EXCEPT !.errorMessage = MsgEmptyTopic,
                     !.flashcardsContainer = <<>>]
      ELSE IF p.ai = Null
      THEN [p EXCEPT !.errorMessage = MsgNotInitialized]
      ELSE generateContent([p EXCEPT !.errorMessage = MsgGenerating,
                                     !.flashcardsContainer = <<>>,
                                     !.disabled = TRUE],
                           topic)

\* the click handler up to its await
IndexGenerateClicked(p) ==
  IF p.ai = Null
  THEN [p EXCEPT !.errorMessage = MsgNotInitialized]
  ELSE LET topic == trim(p.topicInput)
       IN  IF topic = <<>>
           THEN [p EXCEPT !.errorMessage = MsgEmptyTopic,
                          !.flashcardsContainer = <<>>]
           ELSE generateContent([p EXCEPT !.errorMessage = MsgGenerating,
                                          !.flashcardsContainer = <<>>,
                                          !.disabled = TRUE],
                                topic)

\* mutant: the finally clause leaves the button as it is
IndexFinally_Noop(p) == p

\* finally { generateButton.disabled = false }
IndexFinally(p) == [p EXCEPT !.disabled = FALSE]

\* mutant: an empty text is parsed like any other
IndexResolved_NoEmptyCheck(p, reply) ==
  LET text       == textOf(reply)
      q          == [p EXCEPT !.responseText = text]
      flashcards == parseFlashcards(text)
  IN  IndexFinally(
        IF Len(flashcards) > 0
        THEN renderFlashcards([q EXCEPT !.errorMessage = <<>>], flashcards)
        ELSE [q EXCEPT !.errorMessage = MsgNoValidIndex])

\* the click handler from its await on, the call having returned
IndexResolved(p, reply) ==
  LET text       == textOf(reply)
      q          == [p EXCEPT !.responseText = text]
      flashcards == parseFlashcards(text)
  IN  IndexFinally(
        IF text # <<>>
        THEN IF Len(flashcards) > 0
             THEN renderFlashcards([q EXCEPT !.errorMessage = <<>>], flashcards)
             ELSE [q EXCEPT !.errorMessage = MsgNoValidIndex]
        ELSE [q EXCEPT !.errorMessage = MsgEmptyResponseIndex])

\* catch (error), then finally
IndexCaught(p, message) ==
  LET thrown        == IF message # <<>> THEN message ELSE MsgUnknown
      detailedError == IF includes(thrown, InvalidKeyMarker)
                       THEN MsgInvalidKeyIndex ELSE thrown
  IN  IndexFinally([p EXCEPT !.errorMessage = <<MsgErrorPrefix>> \o detailedError,
                             !.flashcardsContainer = <<>>])

---------------------------------------------------------------------------
(* src/unnamed/part_000 *)

initializeAi(p, apiKey, constructed) ==
  IF constructed
  THEN [p EXCEPT !.ai = apiKey]
  ELSE [p EXCEPT !.errorMessage = MsgInitFailed]

setLoading(p, isLoading) == [p EXCEPT !.disabled = isLoading]

\* mutant: setLoading(true) comes before the topic is tested
generateAndRenderCards_LoadingFirst(p) ==
  LET topic == trim(p.topicInput)
      q     == setLoading(p, TRUE)
  IN  IF topic = <<>>
      THEN [q EXCEPT !.errorMessage = MsgEmptyTopic]
      ELSE IF p.ai = Null
      THEN [q EXCEPT !.errorMessage = MsgNotInitialized,
                     !.modalOpen = TRUE]
      ELSE generateContent([q EXCEPT !.errorMessage = <<>>,
                                     !.flashcardsContainer = <<>>],
                           topic)

\* generateAndRenderCards up to its await
generateAndRenderCards(p) ==
  LET topic == trim(p.topicInput)
  IN  IF topic = <<>>
      THEN [p EXCEPT !.errorMessage = MsgEmptyTopic]
      ELSE IF p.ai = Null
      THEN [p EXCEPT !.errorMessage = MsgNotInitialized,
                     !.modalOpen = TRUE]
      ELSE generateContent([setLoading(p, TRUE) EXCEPT !.errorMessage = <<>>,
                                                       !.flashcardsContainer = <<>>],
                           topic)

\* mutant: every failure removes the stored key and the client
PartCatch_AlwaysClears(p, message) ==
  LET thrown  == IF message # <<>> THEN message ELSE MsgUnknown
      detailedError == IF includes(thrown, InvalidKeyMarker)
                       THEN MsgInvalidKeyPart ELSE thrown
  IN  [p EXCEPT !.sessionStorage = Null,
                !.ai = Null,
                !.errorMessage = <<MsgErrorPrefix>> \o detailedError]

\* catch (error)
PartCatch(p, message) ==
  LET thrown  == IF message # <<>> THEN message ELSE MsgUnknown
      invalid == includes(thrown, InvalidKeyMarker)
      detailedError == IF invalid THEN MsgInvalidKeyPart ELSE thrown
      q == IF invalid
           THEN [p EXCEPT !.sessionStorage = Null, !.ai = Null]
           ELSE p
  IN  [q EXCEPT !.errorMessage = <<MsgErrorPrefix>> \o detailedError]

\* generateAndRenderCards from its await on, the call having returned
PartResolved(p, reply) ==
  LET text       == textOf(reply)
      q          == [p EXCEPT !.responseText = text]
      flashcards == parseFlashcards(text)
  IN  setLoading(
        IF text = <<>>
        THEN PartCatch(q, MsgEmptyResponsePart)
        ELSE IF Len(flashcards) > 0
             THEN renderFlashcards(q, flashcards)
             ELSE [q EXCEPT !.errorMessage = MsgNoValidPart],
        FALSE)

\* mutant: a failed call is made again while a client is there
PartCaught_Retries(p, message) ==
  LET q == PartCatch(p, message)
  IN  IF q.ai # Null
      THEN generateContent(q, trim(q.topicInput))
      ELSE setLoading(q, FALSE)

\* generateAndRenderCards from its await on, the call having failed
PartCaught(p, message) == setLoading(PartCatch(p, message), FALSE)

PartLoaded(p, constructed) ==
  renderFlashcards(IF p.sessionStorage # Null
                   THEN initializeAi(p, p.sessionStorage, constructed)
                   ELSE p,
                   DEFAULT_FLASHCARDS)

PartGenerateClicked(p) ==
  IF p.ai = Null
  THEN [p EXCEPT !.modalOpen = TRUE]
  ELSE generateAndRenderCards(p)

\* initializeAi is called only for a key that is not empty (&&)
PartSaveClicked(p, typed, constructed) ==
  LET apiKey == trim(typed)
  IN  IF apiKey # <<>> /\ constructed
      THEN generateAndRenderCards(
             [initializeAi(p, apiKey, constructed) EXCEPT !.sessionStorage = apiKey,
                                                          !.modalOpen = FALSE])
      ELSE IF apiKey = <<>>
      THEN p    \* alert('Please enter a valid API key.')
      ELSE initializeAi(p, apiKey, constructed)

PartCancelClicked(p) == [p EXCEPT !.modalOpen = FALSE]

\* mutant: the link removes the stored key and leaves the client in place
PartChangeClicked_KeepsClient(p) ==
  [p EXCEPT !.sessionStorage = Null, !.modalOpen = TRUE]

PartChangeClicked(p) ==
  [p EXCEPT !.sessionStorage = Null, !.ai = Null, !.modalOpen = TRUE]

---------------------------------------------------------------------------
(* The events *)

\* whether the constructor is reached, and then whether it returns
Constructions(key) == IF key = <<>> THEN {TRUE} ELSE BOOLEAN

Frame == UNCHANGED <<variant, markup>>

IndexReload ==
  /\ variant = "index"
  /\ \E constructed \in Constructions(sessionStorage) :
       /\ Becomes(IndexLoaded(FreshPage(sessionStorage, markup), constructed))
       /\ lastEvent' = Event("load", sessionStorage, constructed)
  /\ UNCHANGED rejected
  /\ Frame

\* apiKeyInput and saveApiKeyButton are taken to lie in apiKeySection
IndexSave ==
  /\ variant = "index"
  /\ ~apiKeySectionHidden
  /\ \E typed \in KeyInputs : \E constructed \in Constructions(trim(typed)) :
       /\ Becomes(IndexSaveClicked(Page, typed, constructed))
       /\ lastEvent' = Event("save", typed, constructed)
       /\ rejected' = IF trim(typed) # <<>> /\ constructed THEN Null ELSE rejected
  /\ Frame

\* where the changeApiKey link lies is not known: it can always be clicked
IndexChange ==
  /\ variant = "index"
  /\ Becomes(IndexChangeClicked(Page))
  /\ lastEvent' = Event("change", <<>>, TRUE)
  /\ UNCHANGED rejected
  /\ Frame

\* topicInput and generateButton are taken to lie in appContent
IndexType ==
  /\ variant = "index"
  /\ ~appContentHidden
  /\ \E typed \in TopicInputs :
       /\ typed # topicInput
       /\ Becomes([Page EXCEPT !.topicInput = typed])
  /\ lastEvent' = Event("type", <<>>, TRUE)
  /\ UNCHANGED rejected
  /\ Frame

\* a disabled button dispatches no click
IndexGenerate ==
  /\ variant = "index"
  /\ ~appContentHidden
  /\ ~disabled
  /\ Len(IndexGenerateClicked(Page).pending) <= MaxPending
  /\ Becomes(IndexGenerateClicked(Page))
  /\ lastEvent' = Event("generate", <<>>, TRUE)
  /\ UNCHANGED rejected
  /\ Frame

IndexResolve(i, reply) ==
  /\ variant = "index"
  /\ i \in 1..Len(pending)
  /\ Becomes(IndexResolved(Answered(Page, i), reply))
  /\ lastEvent' = Event("resolve", reply, TRUE)
  /\ UNCHANGED rejected
  /\ Frame

IndexReject(i, message) ==
  /\ variant = "index"
  /\ i \in 1..Len(pending)
  /\ Becomes(IndexCaught(Answered(Page, i), message))
  /\ lastEvent' = Event("reject", message, TRUE)
  /\ rejected' = IF includes(message, InvalidKeyMarker) THEN pending[i].key ELSE rejected
  /\ Frame

PartReload ==
  /\ variant = "part_000"
  /\ \E constructed \in Constructions(sessionStorage) :
       /\ Becomes(PartLoaded(FreshPage(sessionStorage, markup), constructed))
       /\ lastEvent' = Event("load", sessionStorage, constructed)
  /\ UNCHANGED rejected
  /\ Frame

\* an open modal dialog leaves the page behind it inert; its own buttons
\* (save, cancel) can be clicked only while it is open
PartSave ==
  /\ variant = "part_000"
  /\ modalOpen
  /\ \E typed \in KeyInputs : \E constructed \in Constructions(trim(typed)) :
       /\ Len(PartSaveClicked(Page, typed, constructed).pending) <= MaxPending
       /\ Becomes(PartSaveClicked(Page, typed, constructed))
       /\ lastEvent' = Event("save", typed, constructed)
       /\ rejected' = IF trim(typed) # <<>> /\ constructed THEN Null ELSE rejected
  /\ Frame

PartCancel ==
  /\ variant = "part_000"
  /\ modalOpen
  /\ Becomes(PartCancelClicked(Page))
  /\ lastEvent' = Event("cancel", <<>>, TRUE)
  /\ UNCHANGED rejected
  /\ Frame

PartChange ==
  /\ variant = "part_000"
  /\ ~modalOpen
  /\ Becomes(PartChangeClicked(Page))
  /\ lastEvent' = Event("change", <<>>, TRUE)
  /\ UNCHANGED rejected
  /\ Frame

PartType ==
  /\ variant = "part_000"
  /\ ~modalOpen
  /\ \E typed \in TopicInputs :
       /\ typed # topicInput
       /\ Becomes([Page EXCEPT !.topicInput = typed])
  /\ lastEvent' = Event("type", <<>>, TRUE)
  /\ UNCHANGED rejected
  /\ Frame

PartGenerate ==
  /\ variant = "part_000"
  /\ ~modalOpen
  /\ ~disabled
  /\ Len(PartGenerateClicked(Page).pending) <= MaxPending
  /\ Becomes(PartGenerateClicked(Page))
  /\ lastEvent' = Event("generate", <<>>, TRUE)
  /\ UNCHANGED rejected
  /\ Frame

PartResolve(i, reply) ==
  /\ variant = "part_000"
  /\ i \in 1..Len(pending)
  /\ Becomes(PartResolved(Answered(Page, i), reply))
  /\ lastEvent' = Event("resolve", reply, TRUE)
  /\ UNCHANGED rejected
  /\ Frame

PartReject(i, message) ==
  /\ variant = "part_000"
  /\ i \in 1..Len(pending)
  /\ Becomes(PartCaught(Answered(Page, i), message))
  /\ lastEvent' = Event("reject", message, TRUE)
  /\ rejected' = IF includes(message, InvalidKeyMarker) THEN pending[i].key ELSE rejected
  /\ Frame

IndexReply ==
  \E i \in 1..MaxPending :
    \/ \E reply \in Replies : IndexResolve(i, reply)
    \/ \E message \in ErrorMessages : IndexReject(i, message)

PartReply ==
  \E i \in 1..MaxPending :
    \/ \E reply \in Replies : PartResolve(i, reply)
    \/ \E message \in ErrorMessages : PartReject(i, message)

---------------------------------------------------------------------------
(* The page in use *)

Markups == [apiKeySection : BOOLEAN, appContent : BOOLEAN]

NoneHidden == [apiKeySection |-> FALSE, appContent |-> FALSE]

\* the first load of a session: nothing is stored yet
FirstLoad(v, m) ==
  IF v = "index"
  THEN IndexLoaded(FreshPage(Null, m), TRUE)
  ELSE PartLoaded(FreshPage(Null, m), TRUE)

Starts(p) ==
  /\ ai = p.ai
  /\ sessionStorage = p.sessionStorage
  /\ topicInput = p.topicInput
  /\ disabled = p.disabled
  /\ errorMessage = p.errorMessage
  /\ flashcardsContainer = p.flashcardsContainer
  /\ apiKeySectionHidden = p.apiKeySectionHidden
  /\ appContentHidden = p.appContentHidden
  /\ modalOpen = p.modalOpen
  /\ pending = p.pending
  /\ responseText = p.responseText

Init ==
  /\ variant \in {"index", "part_000"}
  /\ markup \in IF variant = "index" THEN Markups ELSE {NoneHidden}
  /\ Starts(FirstLoad(variant, markup))
  /\ lastEvent = Event("load", Null, TRUE)
  /\ rejected = Null

Next ==
  \/ IndexReload
  \/ IndexSave
  \/ IndexChange
  \/ IndexType
  \/ IndexGenerate
  \/ IndexReply
  \/ PartReload
  \/ PartSave
  \/ PartCancel
  \/ PartChange
  \/ PartType
  \/ PartGenerate
  \/ PartReply

Spec == Init /\ [][Next]_vars

\* the upstream answers: a call that is awaited resolves or rejects in the
\* end, and its continuation (try or catch, then finally) is run
FairSpec == Spec /\ WF_vars(IndexReply) /\ WF_vars(PartReply)

---------------------------------------------------------------------------
(* The parser on every short text: a key is saved, a topic typed and a     *)
(* generation started; its reply is any text of Texts, or has no text.     *)

ParseKey == <<"k">>

ParseTopic == <<" ", "a">>

\* index.tsx: save the key, type the topic, click generate
IndexAwaiting ==
  IndexGenerateClicked(
    [IndexSaveClicked(FirstLoad("index", NoneHidden), ParseKey, TRUE)
       EXCEPT !.topicInput = ParseTopic])

\* part_000: type the topic, click generate, save the key in the modal
PartAwaiting ==
  PartSaveClicked(
    PartGenerateClicked([FirstLoad("part_000", NoneHidden) EXCEPT !.topicInput = ParseTopic]),
    ParseKey, TRUE)

ParseInit ==
  /\ variant \in {"index", "part_000"}
  /\ markup = NoneHidden
  /\ Starts(IF variant = "index" THEN IndexAwaiting ELSE PartAwaiting)
  /\ lastEvent = IF variant = "index"
                 THEN Event("generate", <<>>, TRUE)
                 ELSE Event("save", ParseKey, TRUE)
  /\ rejected = Null

ParseReplies == { <<>> } \cup { <<text>> : text \in Texts }

ParseNext ==
  /\ pending # <<>>
  /\ \E reply \in ParseReplies :
       \/ IndexResolve(1, reply)
       \/ PartResolve(1, reply)

ParseSpec == ParseInit /\ [][ParseNext]_vars

---------------------------------------------------------------------------
(* Claims *)

\* what each file shows for an upstream error carrying the invalid-key marker
ShowsCredentialInvalid(message) ==
  message = <<MsgErrorPrefix>> \o
            (IF variant = "index" THEN MsgInvalidKeyIndex ELSE MsgInvalidKeyPart)

\* the handler that ran last handled an upstream failure with the marker
InvalidKeyRejected ==
  /\ lastEvent.name = "reject"
  /\ includes(lastEvent.arg, InvalidKeyMarker)

\* C1: in both files, once the handler of an upstream failure whose message
\* contains 'API key not valid' has finished, CredentialInvalid is shown,
\* the client is null and the session slot is empty.
C1_InvalidKeyLeavesGateAbsent ==
  InvalidKeyRejected =>
    /\ ShowsCredentialInvalid(errorMessage)
    /\ ai = Null
    /\ sessionStorage = Null

\* C2: at most one generateContent call is in flight in any reachable state.
C2_AtMostOneOutstanding == Len(pending) <= 1

\* C3: a call is never issued with the secret the upstream last refused,
\* unless a secret has been activated (saved) since the refusal.
C3_NoRequestWithRejectedSecret ==
  [][ (Len(pending') > Len(pending) /\ rejected' # Null)
        => pending'[Len(pending')].key # rejected' ]_vars

\* a click on generate found the client null
GenerateWithoutClient == lastEvent'.name = "generate" /\ ai = Null

\* C4 as claimed: a generate click with a null client issues no call and
\* ends with the 'API client is not initialized' message, in both files.
C4_NotInitializedEverywhere ==
  [][ GenerateWithoutClient
        => pending' = pending /\ errorMessage' = MsgNotInitialized ]_vars

\* C4 as amended: a generate click with a null client issues no call, for
\* every topic; index.tsx then shows 'API client is not initialized',
\* part_000 opens the key modal and leaves the message as it was.
C4_NoClientNoRequest ==
  [][ GenerateWithoutClient
        => /\ pending' = pending
           /\ ai' = Null
           /\ IF variant = "index"
              THEN errorMessage' = MsgNotInitialized
              ELSE modalOpen' /\ errorMessage' = errorMessage ]_vars

\* C4's case: index.tsx, null client, an empty topic, generate clicked
C4_Witness ==
  /\ variant = "index"
  /\ lastEvent.name = "generate"
  /\ ai = Null
  /\ topicInput = <<>>
  /\ errorMessage = MsgNotInitialized

\* an attempt starts: a generate click, or in part_000 a key saved and
\* accepted, which goes on to generate
AttemptStarts ==
  \/ lastEvent'.name = "generate"
  \/ /\ variant = "part_000"
     /\ lastEvent'.name = "save"
     /\ trim(lastEvent'.arg) # <<>>
     /\ lastEvent'.ok

\* no character of the text is other than white space
Blank(text) == \A i \in DOMAIN text : IsWhiteSpace(text[i])

\* C5: an attempt made with a client and a topic that is blank shows the
\* empty-topic message, issues no call and leaves the generate button as it
\* was (enabled, when the attempt is a click).
C5_BlankTopicRejected ==
  [][ (AttemptStarts /\ ai' # Null /\ Blank(topicInput))
        => /\ errorMessage' = MsgEmptyTopic
           /\ pending' = pending
           /\ disabled' = disabled
           /\ (lastEvent'.name = "generate" => ~disabled') ]_vars

\* C5's case: a client, a topic of white space only, generate clicked
C5_Witness ==
  /\ lastEvent.name = "generate"
  /\ ai # Null
  /\ topicInput = <<" ", NL>>
  /\ errorMessage = MsgEmptyTopic
  /\ pending = <<>>
  /\ ~disabled

---------------------------------------------------------------------------
(* What the claims say of a response text, read off the text by position   *)
(* (no split, join or trim).                                               *)

\* where the lines of the text start
LineStarts(text) ==
  { i \in 1..(Len(text) + 1) : i = 1 \/ text[i - 1] = NL }

\* the place just after the line that starts at i
LineEnd(text, i) ==
  CHOOSE j \in i..(Len(text) + 1) :
    /\ j = Len(text) + 1 \/ text[j] = NL
    /\ \A m \in i..(j - 1) : text[m] # NL

LineAt(text, i) == SubSeq(text, i, LineEnd(text, i) - 1)

HasColon(line) == \E k \in DOMAIN line : line[k] = ":"

FirstColon(line) ==
  CHOOSE k \in DOMAIN line :
    line[k] = ":" /\ \A m \in 1..(k - 1) : line[m] # ":"

BeforeColon(line) == SubSeq(line, 1, FirstColon(line) - 1)

AfterColon(line) == SubSeq(line, FirstColon(line) + 1, Len(line))

\* a text that is not blank, from its first to its last character that is
\* not white space
Stripped(text) ==
  LET inked == { i \in DOMAIN text : ~IsWhiteSpace(text[i]) }
      first == CHOOSE i \in inked : \A m \in inked : i <= m
      last  == CHOOSE i \in inked : \A m \in inked : m <= i
  IN  SubSeq(text, first, last)

YieldsCard(line) ==
  /\ HasColon(line)
  /\ ~Blank(BeforeColon(line))
  /\ ~Blank(AfterColon(line))

CardOf(line) ==
  [term |-> Stripped(BeforeColon(line)), definition |-> Stripped(AfterColon(line))]

\* not empty, and no white space at either end
Clean(text) ==
  /\ text # <<>>
  /\ ~IsWhiteSpace(text[1])
  /\ ~IsWhiteSpace(text[Len(text)])

\* the cards of the lines from position i on, in the order of the lines
RECURSIVE CardsFrom(_, _)
CardsFrom(text, i) ==
  IF i > Len(text) + 1 THEN <<>>
  ELSE LET line == LineAt(text, i)
       IN  (IF YieldsCard(line) THEN <<CardOf(line)>> ELSE <<>>)
           \o CardsFrom(text, LineEnd(text, i) + 1)

\* a reply has been handled
Resolved == lastEvent.name = "resolve"

StartsWithErrorPrefix(message) ==
  message # <<>> /\ message[1] = MsgErrorPrefix

\* C6: after a reply, every card on display has a term and a definition
\* that are not empty and carry no white space at either end; a line of the
\* text gives a card exactly when it has a ':' with text that is not blank
\* on both sides of the first ':'; there are as many cards as such lines,
\* and a text that is not empty raises no error whatever its lines.
C6_CardsOnlyFromValidLines ==
  Resolved =>
    /\ \A n \in DOMAIN flashcardsContainer :
         /\ Clean(flashcardsContainer[n].term)
         /\ Clean(flashcardsContainer[n].definition)
    /\ \A i \in LineStarts(responseText) :
         (lineMapper(LineAt(responseText, i)) # <<>>) <=> YieldsCard(LineAt(responseText, i))
    /\ Len(flashcardsContainer) =
         Cardinality({ i \in LineStarts(responseText) : YieldsCard(LineAt(responseText, i)) })
    /\ responseText # <<>> => ~StartsWithErrorPrefix(errorMessage)

\* C6's case: of two lines, the first with an empty definition and the
\* second valid, only the second gives a card
C6_Witness ==
  /\ Resolved
  /\ responseText = <<"a", ":", " ", NL, "a", ":", "a">>
  /\ flashcardsContainer = << [term |-> <<"a">>, definition |-> <<"a">>] >>

\* C7: the card of a line has as term the text before the first ':'
\* without its outer white space, which holds no ':', and as definition
\* all the text after the first ':' without its outer white space.
C7_TermAndDefinitionAroundFirstColon ==
  Resolved =>
    \A i \in LineStarts(responseText) :
      LET line  == LineAt(responseText, i)
          cards == lineMapper(line)
      IN  cards # <<>> =>
            /\ Len(cards) = 1
            /\ cards[1].term = Stripped(BeforeColon(line))
            /\ \A k \in DOMAIN cards[1].term : cards[1].term[k] # ":"
            /\ cards[1].definition = Stripped(AfterColon(line))

\* C7's case: 'a: a:a' is shown as term 'a', definition 'a:a'
C7_Witness ==
  /\ Resolved
  /\ responseText = <<"a", ":", " ", "a", ":", "a">>
  /\ flashcardsContainer = << [term |-> <<"a">>, definition |-> <<"a", ":", "a">>] >>

\* C8: after a reply, the cards on display are the cards of the valid
\* lines of the text, one each, in the order of the lines.
C8_OneCardPerValidLineInOrder ==
  Resolved => flashcardsContainer = CardsFrom(responseText, 1)

\* C8's case: two lines giving the same card, both on display
C8_Witness ==
  /\ Resolved
  /\ responseText = <<"a", ":", "a", NL, "a", ":", "a">>
  /\ flashcardsContainer = << [term |-> <<"a">>, definition |-> <<"a">>],
                              [term |-> <<"a">>, definition |-> <<"a">>] >>

ShowsEmptyResponse ==
  errorMessage = IF variant = "index"
                 THEN MsgEmptyResponseIndex
                 ELSE <<MsgErrorPrefix>> \o MsgEmptyResponsePart

ShowsNoValidFlashcards ==
  errorMessage = IF variant = "index" THEN MsgNoValidIndex ELSE MsgNoValidPart

NoValidLine(text) ==
  \A i \in LineStarts(text) : ~YieldsCard(LineAt(text, i))

\* C9: the handler of a reply with no text or an empty text shows the
\* empty-response message; the handler of a reply whose text is not empty
\* and has no valid line shows the no-valid-flashcards message; the two
\* are never both shown, and in both cases the handler leaves the display
\* of cards as it was (nothing is rendered).
C9_EmptyResponseAndNoValidFlashcards ==
  [][ lastEvent'.name = "resolve"
        => /\ responseText' = <<>> =>
                ShowsEmptyResponse' /\ flashcardsContainer' = flashcardsContainer
           /\ (responseText' # <<>> /\ NoValidLine(responseText')) =>
                ShowsNoValidFlashcards' /\ flashcardsContainer' = flashcardsContainer
           /\ ~(ShowsEmptyResponse' /\ ShowsNoValidFlashcards') ]_vars

\* C9's case: a reply of blank lines only
C9_Witness ==
  /\ Resolved
  /\ responseText = <<NL, NL>>
  /\ ShowsNoValidFlashcards
  /\ flashcardsContainer = <<>>

\* the save handler ran and the activation failed: the key typed is blank
\* (EmptySecret) or the constructor threw (InitError)
ActivationFailed ==
  /\ lastEvent'.name = "save"
  /\ Blank(lastEvent'.arg) \/ ~lastEvent'.ok

\* C10: after a save whose activation failed, the client is null, the
\* session slot is empty, and the handler has issued no call.
C10_FailedActivationLeavesGateAbsent ==
  [][ ActivationFailed
        => ai' = Null /\ sessionStorage' = Null /\ pending' = pending ]_vars

\* the gate is Absent: no client and no stored secret
GateAbsent == ai = Null /\ sessionStorage = Null

\* the save handler ran and the activation succeeded
ActivationSucceeded ==
  /\ lastEvent'.name = "save"
  /\ ~Blank(lastEvent'.arg)
  /\ lastEvent'.ok

\* C11: a click on the change-key link leaves the client null and the
\* session slot empty, whatever the state it is made in (a call may be in
\* flight); and once the client is null and the slot empty they stay so
\* through every later step (a late reply, a failure, a reload, a failed
\* save) other than a save whose activation succeeds.
C11_ClearLeavesGateAbsent ==
  [][ /\ lastEvent'.name = "change" => GateAbsent'
      /\ (GateAbsent /\ ~ActivationSucceeded) => GateAbsent' ]_vars

\* C11's case: the key was changed while a call was in flight, no upstream
\* refusal is on record, and the reply of that call, which carries cards,
\* has been handled with the gate still Absent
C11_Witness ==
  /\ lastEvent.name = "resolve"
  /\ Len(parseFlashcards(responseText)) > 0
  /\ rejected = Null
  /\ GateAbsent


CredentialUnchanged == ai' = ai /\ sessionStorage' = sessionStorage

\* an upstream failure whose message lacks the invalid-key marker was handled
UpstreamErrorHandled ==
  /\ lastEvent'.name = "reject"
  /\ ~includes(lastEvent'.arg, InvalidKeyMarker)

\* C12: a generation that fails otherwise than by CredentialInvalid leaves
\* the client and the session slot as the attempt found them: a click that
\* issues no call (EmptyTopic, NotInitialized), a reply without a card
\* (EmptyResponse, NoValidFlashcards), an upstream failure without the
\* marker; in part_000 an accepted save that then finds the topic blank
\* leaves the key just activated in both. An upstream failure is shown as
\* 'An error occurred: ' followed by the upstream's message (by 'An unknown
\* error occurred' when the upstream gave no message).
C12_OtherFailuresKeepCredential ==
  [][ /\ (lastEvent'.name = "generate" /\ pending' = pending)
           => CredentialUnchanged
      /\ (variant = "part_000" /\ ActivationSucceeded /\ pending' = pending)
           => ai' = trim(lastEvent'.arg) /\ sessionStorage' = trim(lastEvent'.arg)
      /\ (lastEvent'.name = "resolve" /\ Len(parseFlashcards(responseText')) = 0)
           => CredentialUnchanged
      /\ UpstreamErrorHandled
           => /\ CredentialUnchanged
              /\ errorMessage' = <<MsgErrorPrefix>> \o
                   (IF lastEvent'.arg # <<>> THEN lastEvent'.arg ELSE MsgUnknown) ]_vars

\* C12's case: a call failed with 'Failed to fetch' while a client was
\* active; client and slot still hold the key and the message is shown
C12_Witness ==
  /\ lastEvent.name = "reject"
  /\ lastEvent.arg = <<"Failed to fetch">>
  /\ ai # Null
  /\ sessionStorage = ai
  /\ errorMessage = <<MsgErrorPrefix, "Failed to fetch">>


\* cards other than the default ones are on display
GeneratedOnDisplay == flashcardsContainer \notin { <<>>, DEFAULT_FLASHCARDS }

\* the credential is reset: the key is changed, or an upstream failure with
\* the invalid-key marker is handled
CredentialReset ==
  \/ lastEvent'.name = "change"
  \/ lastEvent'.name = "reject" /\ includes(lastEvent'.arg, InvalidKeyMarker)

\* C13: a credential reset leaves no generated cards on display, and the
\* reply of a call that was in flight when the client was reset (it is
\* handled while the client is null) puts none on display either.
C13_NoCardsOfPreviousCredential ==
  [][ /\ CredentialReset => ~GeneratedOnDisplay'
      /\ (lastEvent'.name = "resolve" /\ ai = Null) => ~GeneratedOnDisplay' ]_vars


\* the calls in flight are those of before less the one answered
OneAnswered ==
  \E i \in 1..Len(pending) :
    pending' = SubSeq(pending, 1, i - 1) \o SubSeq(pending, i + 1, Len(pending))

\* the calls in flight are those of before, or those and one more
AtMostOneIssued ==
  \/ pending' = pending
  \/ Len(pending') = Len(pending) + 1 /\ SubSeq(pending', 1, Len(pending)) = pending

\* C14: the handler of a reply or of a failure ends its attempt and issues
\* no call: the calls in flight are those of before less the one answered.
\* A generate click or a save issues at most one call; a page load drops
\* the calls of the old document and issues none; no other step changes
\* the calls in flight. So a call is issued only by a user's generate click
\* or save, one per event.
C14_NoAutomaticRetry ==
  [][ CASE lastEvent'.name \in {"resolve", "reject"} -> OneAnswered
        [] lastEvent'.name \in {"generate", "save"}  -> AtMostOneIssued
        [] lastEvent'.name = "load"                  -> pending' = <<>>
        [] OTHER                                     -> pending' = pending ]_vars

\* C14's case: a call failed with a client in place (nothing stops a second
\* try), and no call is in flight after its handler
C14_Witness ==
  /\ lastEvent.name = "reject"
  /\ ai # Null
  /\ trim(topicInput) # <<>>
  /\ pending = <<>>


\* C15: in no reachable state is the generate button disabled without a
\* call in flight; and, the upstream answering every call in the end, a
\* disabled generate button is enabled again later, whatever the outcome
\* of the attempt.
C15_TriggerEnabledAgain ==
  /\ [](disabled => pending # <<>>)
  /\ disabled ~> ~disabled

\* C15's case: an attempt disabled the button and ended with
\* CredentialInvalid; the button is enabled and no call is in flight
C15_Witness ==
  /\ lastEvent.name = "reject"
  /\ includes(lastEvent.arg, InvalidKeyMarker)
  /\ ~disabled
  /\ pending = <<>>


\* C16: the generate button is disabled in every state in which a call is
\* in flight; in particular the handler of one reply does not leave the
\* button enabled while another call is still in flight.
C16_DisabledWhileOutstanding == pending # <<>> => disabled


\* C17: whenever no handler is running, the session slot holds a secret if
\* and only if the client is not null.
C17_SlotAndClientAgree == (sessionStorage # Null) <=> (ai # Null)


\* a card written as a line: the term, a colon, a space, the definition
CardLine(card) == card.term \o <<":", " ">> \o card.definition

\* the cards written back as a text, one line each
WrittenBack(cards) ==
  join([i \in 1..Len(cards) |-> CardLine(cards[i])], NL)

\* C18: for the text x of every reply handled, the cards parsed from x,
\* written back as 'term: definition' lines and parsed again, are the cards
\* parsed from x: as many, with the same terms and definitions, in the same
\* order.
C18_ParsingIdempotent ==
  Resolved =>
    parseFlashcards(WrittenBack(parseFlashcards(responseText)))
      = parseFlashcards(responseText)

\* C18's case: a line with white space around the term and a colon in the
\* definition; the card written back is another text than the reply's
C18_Witness ==
  /\ Resolved
  /\ responseText = <<" ", "a", " ", ":", "a", ":", "a">>
  /\ flashcardsContainer = << [term |-> <<"a">>, definition |-> <<"a", ":", "a">>] >>
  /\ WrittenBack(flashcardsContainer) = <<"a", ":", " ", "a", ":", "a">>

=============================================================================
